---- MODULE Spec2Model ----
(***************************************************************************)
(* Model of the taquoma-utils build-automation scripts:                    *)
(*   jenkins_helper.py   (get_secret, tiered secret resolution)            *)
(*   uploader.py         (its own get_secret, azcopy upload)               *)
(*   job-submit.py       (health check, build record, submission)          *)
(*   package-uploader.py (health check, azcopy upload, registration)       *)
(* Strings that the code inspects character by character (URLs) are        *)
(* sequences of one-character strings; all other values are opaque.        *)
(***************************************************************************)
EXTENDS Integers, Sequences, FiniteSets, TLC

VARIABLES
    script,         \* which entry point this process runs
    pc,             \* position of the process in that entry point
    env,            \* os.environ: key -> value (Absent when the key is not set)
    envFileExists,  \* os.path.exists('.env')
    envFile,        \* contents of .env: key -> value (Absent when not defined)
    jenkinsUp,      \* the Jenkins credentials service answers (else the call raises)
    jenkinsStore,   \* credentials held by the Jenkins service: key -> value
    key,            \* argument of the get_secret call under study
    envAtCall,      \* os.environ as it was when that get_secret call started
    result,         \* outcome of that call: [kind, val]
    log,            \* tiers consulted by that call, in order
    apiUrl,         \* an endpoint string, as a sequence of characters
    normalized,     \* results of normalizing apiUrl once, twice, ...
    http,           \* HTTP requests sent so far: [method, url, body]
    health,         \* outcome of GET /healthcheck: [kind, status, body]
    metadata,       \* the build record (a dict: field -> value)
    buildResult,    \* outcome of generate_build_metadata
    postResponse,   \* what the server answered to the POST
    submitResult,   \* outcome of upload_metadata_to_server
    uuidCount,      \* number of uuid4() values drawn so far
    clock,          \* index of the latest datetime.now() reading
    exitCode,       \* exit status of the process (Running until it ends)
    fileExists,     \* os.path.exists(file_path) for the file to upload
    containerExists,\* the destination blob container exists
    containerCheck, \* how the container check-then-create went so far
    copy,           \* outcome of the azcopy copy process
    registerResult, \* what register_file_to_newdahkobed returned
    uploadResult    \* what upload_file_with_azcopy returned

world == <<envFileExists, envFile, jenkinsUp, jenkinsStore>>
secretVars == <<key, envAtCall, result, log>>
normVars == <<apiUrl, normalized>>
jobVars == <<metadata, buildResult, postResponse, submitResult, uuidCount, clock>>
mainVars == <<http, health, exitCode>>
pkgVars == <<fileExists, containerExists, containerCheck, copy, registerResult,
            uploadResult>>

vars == <<script, pc, env, world, secretVars, normVars, jobVars, mainVars, pkgVars>>

-----------------------------------------------------------------------------
(* Values *)

Absent == "<unset>"      \* os.getenv(k) is None / key not in the mapping

\* Python truthiness of an optional string: None and "" are falsy.
Truthy(v) == v # Absent /\ v # ""

JenkinsKeys == {"JENKINS_HOME", "JENKINS_URL", "JENKINS_USER", "JENKINS_TOKEN"}
TargetKeys == {"JOB_NAME", "GIT_COMMIT"}
\* keys job-submit.py resolves
RequiredJobKeys == {"JOB_NAME", "BUILD_NUMBER"}
OptionalJobKeys == {"BUILD_URL", "GIT_COMMIT", "GIT_BRANCH", "NODE_NAME"}
JobKeys == {"JOB_SERVER_URL"} \cup RequiredJobKeys \cup OptionalJobKeys
\* keys package-uploader.py and uploader.py resolve
AzureKeys == {"AZURE_STORAGE_ACCOUNT", "AZURE_STORAGE_KEY", "AZURE_CONTAINER_NAME"}
PkgKeys == {"SERVER_ENDPOINT", "TEST_FILE", "PACKAGE_MODE", "COMMIT_SHA", "AZURE_CLIENT_ID"}
             \cup AzureKeys
AllKeys == JenkinsKeys \cup JobKeys \cup PkgKeys

NoEnv == [k \in AllKeys |-> Absent]

\* Messages of the exceptions get_secret raises (the key name is left out).
MsgNotFoundAnySource == "Secret not found in any available sources"
MsgCredsNotSet == "Error accessing Jenkins credentials: Jenkins credentials are not set in environment variables"
MsgNotInJenkins == "Error accessing Jenkins credentials: Secret not found in Jenkins credentials or environment variables"
MsgJenkinsFailed == "Error accessing Jenkins credentials: transport error"

\* sys.exit(1), as the value of a call outcome.
ExitFailure == "sys.exit(1)"

Returned(v, e, l) == [kind |-> "return", val |-> v, env |-> e, log |-> l]
Raised(m, e, l) == [kind |-> "raise", val |-> m, env |-> e, log |-> l]
Exited(c, e, l) == [kind |-> "exit", val |-> c, env |-> e, log |-> l]

-----------------------------------------------------------------------------
(* python-dotenv's load_dotenv() with override=False: a key of the file is *)
(* copied into os.environ unless the key is already set there (even to an  *)
(* empty string); without a file nothing changes.                          *)
load_dotenv(e, fx, f) ==
    IF ~fx THEN e
    ELSE [k \in DOMAIN e |-> IF e[k] = Absent /\ f[k] # Absent THEN f[k] ELSE e[k]]

\* The Jenkins branch without the "if not secret" check on the credential.
jenkins_branch_unchecked(k, e, up, st) ==
    IF ~(Truthy(e["JENKINS_URL"]) /\ Truthy(e["JENKINS_USER"]) /\ Truthy(e["JENKINS_TOKEN"]))
    THEN Raised(MsgCredsNotSet, e, <<"environ">>)
    ELSE IF ~up
    THEN Raised(MsgJenkinsFailed, e, <<"environ", "jenkins">>)
    ELSE Returned(st[k], e, <<"environ", "jenkins">>)

\* The Jenkins branch calling the service without testing the three
\* connection values first.
jenkins_branch_no_triple_check(k, e, up, st) ==
    IF ~up
    THEN Raised(MsgJenkinsFailed, e, <<"environ", "jenkins">>)
    ELSE IF Truthy(st[k])
    THEN Returned(st[k], e, <<"environ", "jenkins">>)
    ELSE Raised(MsgNotInJenkins, e, <<"environ", "jenkins", "environ">>)

\* The Jenkins branch of get_secret: the three connection values, then
\* server.get_credential(key), then os.getenv(key) once more.
jenkins_branch(k, e, up, st) ==
    IF ~(Truthy(e["JENKINS_URL"]) /\ Truthy(e["JENKINS_USER"]) /\ Truthy(e["JENKINS_TOKEN"]))
    THEN Raised(MsgCredsNotSet, e, <<"environ">>)
    ELSE IF ~up
    THEN Raised(MsgJenkinsFailed, e, <<"environ", "jenkins">>)
    ELSE IF Truthy(st[k])
    THEN Returned(st[k], e, <<"environ", "jenkins">>)
    ELSE IF Truthy(e[k])
    THEN Returned(e[k], e, <<"environ", "jenkins", "environ">>)
    ELSE Raised(MsgNotInJenkins, e, <<"environ", "jenkins", "environ">>)

\* The .env branch of get_secret.
dotenv_branch(k, e, fx, f) ==
    IF fx
    THEN LET e2 == load_dotenv(e, fx, f)
         IN  IF Truthy(e2[k])
             THEN Returned(e2[k], e2, <<"environ", "dotenv">>)
             ELSE Raised(MsgNotFoundAnySource, e2, <<"environ", "dotenv">>)
    ELSE Raised(MsgNotFoundAnySource, e, <<"environ">>)

\* get_secret with the tiers in the order environment, .env, Jenkins.
get_secret_env_file_jenkins(k, e, fx, f, up, st) ==
    IF Truthy(e[k])
    THEN Returned(e[k], e, <<"environ">>)
    ELSE LET d == dotenv_branch(k, e, fx, f)
         IN  IF d.kind = "return" \/ ~Truthy(e["JENKINS_HOME"])
             THEN d
             ELSE LET j == jenkins_branch(k, d.env, up, st)
                  IN  [j EXCEPT !.log = d.log \o Tail(j.log)]

\* get_secret asking Jenkins before looking at the environment.
get_secret_jenkins_first(k, e, fx, f, up, st) ==
    IF Truthy(e["JENKINS_HOME"])
    THEN jenkins_branch(k, e, up, st)
    ELSE IF Truthy(e[k])
    THEN Returned(e[k], e, <<"environ">>)
    ELSE dotenv_branch(k, e, fx, f)

\* jenkins_helper.get_secret
get_secret(k, e, fx, f, up, st) ==
    IF Truthy(e[k])
    THEN Returned(e[k], e, <<"environ">>)
    ELSE IF Truthy(e["JENKINS_HOME"])
    THEN jenkins_branch(k, e, up, st)
    ELSE dotenv_branch(k, e, fx, f)

\* uploader.get_secret: every failure is sys.exit(1); there is no .env tier.
uploader_get_secret(k, e, up, st) ==
    IF Truthy(e[k])
    THEN Returned(e[k], e, <<"environ">>)
    ELSE IF Truthy(e["JENKINS_HOME"])
    THEN IF ~(Truthy(e["JENKINS_URL"]) /\ Truthy(e["JENKINS_USER"]) /\ Truthy(e["JENKINS_TOKEN"]))
         THEN Exited(ExitFailure, e, <<"environ">>)
         ELSE IF ~up
         THEN Exited(ExitFailure, e, <<"environ", "jenkins">>)
         ELSE IF Truthy(st[k])
         THEN Returned(st[k], e, <<"environ", "jenkins">>)
         ELSE Exited(ExitFailure, e, <<"environ", "jenkins">>)
    ELSE Exited(ExitFailure, e, <<"environ">>)

-----------------------------------------------------------------------------
(* Idle values of the variables an entry point does not use *)

NoResult == [kind |-> "none", val |-> Absent]
NoOutcome == [kind |-> "none"]
Running == -1

IdleWorld ==
    /\ envFileExists = FALSE
    /\ envFile = NoEnv
    /\ jenkinsUp = FALSE
    /\ jenkinsStore = NoEnv
IdleSecret ==
    /\ key = Absent
    /\ envAtCall = NoEnv
    /\ result = NoResult
    /\ log = <<>>
IdleNorm ==
    /\ apiUrl = <<>>
    /\ normalized = <<>>
IdleJob ==
    /\ metadata = <<>>
    /\ buildResult = NoOutcome
    /\ postResponse = NoOutcome
    /\ submitResult = NoOutcome
    /\ uuidCount = 0
    /\ clock = 0
IdleMain ==
    /\ http = <<>>
    /\ health = NoOutcome
    /\ exitCode = Running
IdlePkg ==
    /\ fileExists = FALSE
    /\ containerExists = FALSE
    /\ containerCheck = "none"
    /\ copy = NoOutcome
    /\ registerResult = "none"
    /\ uploadResult = "none"

-----------------------------------------------------------------------------
(* Secret resolution on its own: a process that may have run a script's    *)
(* prologue and then calls get_secret(key) once.                           *)

InitSecret ==
    /\ script \in {"jenkins_helper", "uploader"}
    /\ pc = "boot"
    /\ key \in TargetKeys
    /\ \E home \in {Absent, "", "/var/jenkins"},
          url \in {Absent, "http://ci"}, user \in {Absent, "ci-user"},
          token \in {Absent, "ci-token"}, v \in {Absent, "", "env-value"} :
          env = [NoEnv EXCEPT !["JENKINS_HOME"] = home, !["JENKINS_URL"] = url,
                              !["JENKINS_USER"] = user, !["JENKINS_TOKEN"] = token,
                              ![key] = v]
    /\ envFileExists \in BOOLEAN
    /\ IF envFileExists
       THEN \E v \in {Absent, "", "file-value"}, home \in {Absent, "/var/jenkins"} :
               envFile = [NoEnv EXCEPT ![key] = v, !["JENKINS_HOME"] = home]
       ELSE envFile = NoEnv
    /\ jenkinsUp \in BOOLEAN
    /\ \E v \in {Absent, "jenkins-value"} : jenkinsStore = [NoEnv EXCEPT ![key] = v]
    /\ envAtCall = NoEnv
    /\ result = NoResult
    /\ log = <<>>
    /\ IdleNorm
    /\ IdleJob
    /\ IdleMain
    /\ IdlePkg

\* where each entry point goes after its prologue
AfterPrologue ==
    CASE script \in {"job-submit.py", "package-uploader.py"} -> "health"
      [] script = "uploader.py" -> "testfile"
      [] OTHER -> "ready"

\* The prologue of the scripts' main blocks: load .env unless in Jenkins.
Prologue ==
    /\ pc = "boot"
    /\ script # "normalize"
    /\ pc' = AfterPrologue
    /\ env' = IF ~Truthy(env["JENKINS_HOME"])
              THEN load_dotenv(env, envFileExists, envFile)
              ELSE env
    /\ UNCHANGED <<script, world, secretVars, normVars, jobVars, mainVars, pkgVars>>

\* get_secret used as a library function, without any prologue.
Imported ==
    /\ pc = "boot"
    /\ script = "jenkins_helper"
    /\ pc' = "ready"
    /\ UNCHANGED <<script, env, world, secretVars, normVars, jobVars, mainVars, pkgVars>>

CallGetSecret ==
    /\ pc = "ready"
    /\ LET r == IF script = "uploader"
                THEN uploader_get_secret(key, env, jenkinsUp, jenkinsStore)
                ELSE get_secret(key, env, envFileExists, envFile, jenkinsUp, jenkinsStore)
       IN  /\ result' = [kind |-> r.kind, val |-> r.val]
           /\ env' = r.env
           /\ log' = r.log
    /\ envAtCall' = env
    /\ pc' = "done"
    /\ UNCHANGED <<script, world, key, normVars, jobVars, mainVars, pkgVars>>

NextSecret == Prologue \/ Imported \/ CallGetSecret

SpecSecret == InitSecret /\ [][NextSecret]_vars

-----------------------------------------------------------------------------
(* Endpoint normalization (job-submit.py, upload_metadata_to_server)       *)

SubmitSuffix == <<"/", "s", "u", "b", "m", "i", "t">>
HttpX == <<"h", "t", "t", "p", ":", "/", "/", "x">>

\* str.endswith
endswith(s, suffix) ==
    /\ Len(s) >= Len(suffix)
    /\ SubSeq(s, Len(s) - Len(suffix) + 1, Len(s)) = suffix

\* Normalization that appends "/submit" without looking for a trailing "/".
normalize_no_slash_check(url) ==
    IF ~endswith(url, SubmitSuffix) THEN url \o SubmitSuffix ELSE url

\* if not api_url.endswith('/submit'): add '/' unless it is there, add 'submit'
normalize(url) ==
    IF ~endswith(url, SubmitSuffix)
    THEN (IF ~endswith(url, <<"/">>) THEN url \o <<"/">> ELSE url) \o Tail(SubmitSuffix)
    ELSE url

MaxPad == 2
PadChars == {"/", "t", "x"}
Pads == UNION {[1..n -> PadChars] : n \in 0..MaxPad}
\* every contiguous piece of "/submit/submit"
Pieces == LET w == SubmitSuffix \o SubmitSuffix
          IN  {SubSeq(w, i, j) : i \in 1..(Len(w) + 1), j \in 0..Len(w)}
Endpoints == {pre \o mid \o post : pre \in {<<>>, HttpX}, mid \in Pieces, post \in Pads}

InitNorm ==
    /\ script = "normalize"
    /\ pc = "boot"
    /\ env = NoEnv
    /\ IdleWorld
    /\ IdleSecret
    /\ apiUrl \in Endpoints
    /\ normalized = <<>>
    /\ IdleJob
    /\ IdleMain
    /\ IdlePkg

\* the normalization as upload_metadata_to_server applies it
Normalize ==
    /\ script = "normalize"
    /\ pc = "boot"
    /\ normalized' = <<normalize(apiUrl)>>
    /\ pc' = "once"
    /\ UNCHANGED <<script, env, world, secretVars, apiUrl, jobVars, mainVars, pkgVars>>

\* a second call handed the URL the first one produced
NormalizeAgain ==
    /\ script = "normalize"
    /\ pc = "once"
    /\ normalized' = Append(normalized, normalize(normalized[1]))
    /\ pc' = "twice"
    /\ UNCHANGED <<script, env, world, secretVars, apiUrl, jobVars, mainVars, pkgVars>>

NextNorm == Normalize \/ NormalizeAgain

SpecNorm == InitNorm /\ [][NextNorm]_vars

\* C8: "http://x", "http://x/" and "http://x/submit" all normalize to
\* "http://x/submit"; every normalized URL ends with "/submit"; a URL that
\* already ends with "/submit" is unchanged; normalizing twice equals
\* normalizing once.
C8_Normalization ==
    /\ Len(normalized) >= 1 =>
         /\ endswith(normalized[1], SubmitSuffix)
         /\ endswith(apiUrl, SubmitSuffix) => normalized[1] = apiUrl
         /\ apiUrl \in {HttpX, HttpX \o <<"/">>, HttpX \o SubmitSuffix} =>
                normalized[1] = HttpX \o SubmitSuffix
    /\ Len(normalized) = 2 => normalized[2] = normalized[1]

C8_Witness ==
    /\ pc = "twice"
    /\ apiUrl = HttpX \o <<"/">>
    /\ normalized = <<HttpX \o SubmitSuffix, HttpX \o SubmitSuffix>>

-----------------------------------------------------------------------------
(* job-submit.py *)

\* The get_secret the running script binds (uploader.py defines its own;
\* the others import jenkins_helper's), against the process's .env file and
\* Jenkins service.
secret(k, e) ==
    IF script = "uploader.py"
    THEN uploader_get_secret(k, e, jenkinsUp, jenkinsStore)
    ELSE get_secret(k, e, envFileExists, envFile, jenkinsUp, jenkinsStore)

\* The characters of the URL values the model uses.
Chars(v) ==
    CASE v = "http://x" -> HttpX
      [] v = "http://x/" -> HttpX \o <<"/">>
      [] v = "http://x/submit" -> HttpX \o SubmitSuffix
      [] v = Absent -> <<"N", "o", "n", "e">>
      [] OTHER -> <<"?">>

HealthPath == <<"/", "h", "e", "a", "l", "t", "h", "c", "h", "e", "c", "k">>

\* str(uuid.uuid4()): the n-th value drawn
Uuid(n) == <<"uuid", n>>
\* datetime.now(timezone.utc).isoformat() at clock reading t
Timestamp(t) == <<"time", t>>

\* d[k] = v on a dict
DictSet(d, k, v) == [x \in DOMAIN d \cup {k} |-> IF x = k THEN v ELSE d[x]]

\* Python truthiness of a dict value of the build record
FieldTruthy(v) == v # Absent /\ v # ""

\* {k: v for k, v in metadata.items() if v}
FilterEmpty(d) == [x \in {y \in DOMAIN d : FieldTruthy(d[y])} |-> d[x]]

\* get_secret for each key of ks in turn, stopping at the first failure
RECURSIVE get_secrets(_, _)
get_secrets(ks, e) ==
    IF ks = <<>>
    THEN [kind |-> "return", val |-> Absent, vals |-> <<>>, env |-> e]
    ELSE LET r == secret(Head(ks), e)
         IN  IF r.kind # "return"
             THEN [kind |-> r.kind, val |-> r.val, vals |-> <<>>, env |-> r.env]
             ELSE LET rest == get_secrets(Tail(ks), r.env)
                  IN  [rest EXCEPT !.vals = <<r.val>> \o @]

BuildFields == <<"jobname", "buildnumber", "buildurl", "commit", "branch", "nodename">>
BuildKeys == <<"JOB_NAME", "BUILD_NUMBER", "BUILD_URL", "GIT_COMMIT", "GIT_BRANCH", "NODE_NAME">>

\* generate_build_metadata with uuid number n and clock reading t
generate_build_metadata(e, n, t) ==
    LET r == get_secrets(BuildKeys, e)
    IN  IF r.kind # "return"
        THEN [kind |-> r.kind, val |-> r.val, env |-> r.env]
        ELSE LET d == [f \in {"id", "timestamp"} \cup {BuildFields[i] : i \in 1..6} |->
                         IF f = "id" THEN Uuid(n)
                         ELSE IF f = "timestamp" THEN Timestamp(t)
                         ELSE r.vals[CHOOSE i \in 1..6 : BuildFields[i] = f]]
             IN  [kind |-> "return", val |-> FilterEmpty(d), env |-> r.env]

\* response.json() on the bodies the model's server sends
JsonBodies == {"{\"ok\": true}", "{\"ok\": false}"}
json(body) == [ok |-> (body = "{\"ok\": true}")]

StatusOk == 200
\* status codes and bodies of the submission endpoint
PostStatuses == {200, 201, 204, 404, 500}
PostBodies == JsonBodies \cup {"Not Found"}
PostResponses == [kind : {"response"}, status : PostStatuses, body : PostBodies]
                   \cup {[kind |-> "raise"]}

MsgSubmitFailed == "Failed to submit job record to server"
MsgTransport == "requests.exceptions.RequestException"
MsgJsonDecode == "requests.exceptions.JSONDecodeError"

\* The status test of upload_metadata_to_server accepting every 2xx status.
status_rejected_non_2xx(status) == status \notin {200, 201, 204}

\* if response.status_code != 200
status_rejected(status) == status # StatusOk

\* api_url=None, the default of upload_metadata_to_server's parameter
NoUrl == <<"<None>">>

\* upload_metadata_to_server(md, api_url) when the server answers resp;
\* n and t are the uuid number and clock reading it draws.
\* Yields the outcome, the dict as mutated, the requests sent and os.environ.
upload_metadata_to_server(md, api_url, e, n, t, resp) ==
    LET u == secret("JOB_SERVER_URL", e)
    IN  IF u.kind # "return"
        THEN [out |-> [kind |-> "raise", val |-> u.val], md |-> md, sent |-> <<>>, env |-> u.env]
        ELSE
        LET url == normalize(IF Truthy(u.val) THEN Chars(u.val) ELSE api_url)
            r == get_secrets(<<"JOB_NAME", "BUILD_NUMBER">>, u.env)
        IN  IF r.kind # "return"
            THEN [out |-> [kind |-> "raise", val |-> r.val],
                  md |-> IF r.vals = <<>> THEN md ELSE DictSet(md, "jobname", r.vals[1]),
                  sent |-> <<>>, env |-> r.env]
            ELSE
            LET md2 == DictSet(DictSet(DictSet(DictSet(md,
                           "jobname", r.vals[1]), "jobnumber", r.vals[2]),
                           "id", Uuid(n)), "timestamp", Timestamp(t))
                req == [method |-> "POST", url |-> url, body |-> md2]
                out == IF resp.kind = "raise"
                       THEN [kind |-> "raise", val |-> MsgTransport]
                       ELSE IF status_rejected(resp.status)
                       THEN [kind |-> "raise", val |-> MsgSubmitFailed,
                             status |-> resp.status, body |-> resp.body]
                       ELSE IF resp.body \in JsonBodies
                       THEN [kind |-> "return", val |-> json(resp.body)]
                       ELSE [kind |-> "raise", val |-> MsgJsonDecode]
            IN  [out |-> out, md |-> md2, sent |-> <<req>>, env |-> r.env]

\* Environments job-submit.py is started in.
JobEnvs ==
    {[k \in AllKeys |->
        IF k = "JENKINS_HOME" THEN (IF home THEN "/var/jenkins" ELSE Absent)
        ELSE IF k \in {"JENKINS_URL", "JENKINS_USER"} THEN (IF home THEN "ci" ELSE Absent)
        ELSE IF k = "JENKINS_TOKEN" THEN (IF home /\ token THEN "ci-token" ELSE Absent)
        ELSE IF k = "JOB_SERVER_URL" THEN url
        ELSE IF k \in set THEN "env-value"
        ELSE Absent] :
      home \in BOOLEAN, token \in BOOLEAN,
      url \in {Absent, "http://x", "http://x/submit"},
      set \in SUBSET (RequiredJobKeys \cup OptionalJobKeys)}

\* a .env file or Jenkins store that defines the keys of set
Defines(set, url, v) ==
    [k \in AllKeys |-> IF k = "JOB_SERVER_URL" /\ k \in set THEN url
                       ELSE IF k \in set THEN v ELSE Absent]

InitJob ==
    /\ script = "job-submit.py"
    /\ pc = "boot"
    /\ env \in JobEnvs
    /\ envFileExists \in BOOLEAN
    /\ IF envFileExists /\ ~Truthy(env["JENKINS_HOME"])
       THEN envFile \in {Defines(JobKeys, "http://x/", "file-value"),
                         Defines(RequiredJobKeys, "http://x/", "file-value")}
       ELSE envFile = NoEnv
    /\ IF Truthy(env["JENKINS_TOKEN"])
       THEN /\ jenkinsUp \in BOOLEAN
            /\ jenkinsStore \in {NoEnv, Defines(JobKeys, "http://x/submit", "jenkins-value")}
       ELSE /\ jenkinsUp = FALSE
            /\ jenkinsStore = NoEnv
    /\ IdleSecret
    /\ IdleNorm
    /\ IdleJob
    /\ IdleMain
    /\ IdlePkg

Exit(code) ==
    /\ exitCode' = code
    /\ pc' = "exited"

HealthResponses == [kind : {"response"}, status : {200, 404}, body : {"Alive", "Dead"}]
                     \cup {[kind |-> "raise"]}

\* The health check accepting any 200 answer.
health_passed_any_body(h) == h.kind = "response" /\ h.status = 200

\* health_response.status_code == 200 and health_response.text == 'Alive'
health_passed(h) == h.kind = "response" /\ h.status = 200 /\ h.body = "Alive"

\* the key holding the server endpoint, and the step after the health check
HealthKey == IF script = "job-submit.py" THEN "JOB_SERVER_URL" ELSE "SERVER_ENDPOINT"
AfterHealth == IF script = "job-submit.py" THEN "build" ELSE "testfile"

\* job-submit.py lines 93-107, package-uploader.py lines 190-204:
\* resolve the endpoint, GET /healthcheck
HealthCheck ==
    /\ script \in {"job-submit.py", "package-uploader.py"}
    /\ pc = "health"
    /\ LET u == secret(HealthKey, env)
       IN  /\ env' = u.env
           /\ IF u.kind # "return"
              THEN /\ Exit(1)
                   /\ UNCHANGED <<http, health>>
              ELSE \E h \in HealthResponses :
                     /\ http' = Append(http, [method |-> "GET",
                                              url |-> Chars(u.val) \o HealthPath,
                                              body |-> <<>>])
                     /\ health' = h
                     /\ IF health_passed(h)
                        THEN pc' = AfterHealth /\ UNCHANGED exitCode
                        ELSE Exit(1)
    /\ UNCHANGED <<script, world, secretVars, normVars, jobVars, pkgVars>>

\* job-submit.py lines 110-115: generate_build_metadata and "if metadata"
JobBuildMetadata ==
    /\ script = "job-submit.py"
    /\ pc = "build"
    /\ \E tick \in {0, 1} :
         LET r == generate_build_metadata(env, uuidCount + 1, clock + tick)
         IN  /\ uuidCount' = uuidCount + 1
             /\ clock' = clock + tick
             /\ env' = r.env
             /\ buildResult' = [kind |-> r.kind, val |-> r.val]
             /\ IF r.kind = "return" /\ DOMAIN r.val # {}
                THEN /\ metadata' = r.val
                     /\ pc' = "submit"
                     /\ UNCHANGED exitCode
                ELSE /\ UNCHANGED metadata
                     /\ Exit(1)
    /\ UNCHANGED <<script, world, secretVars, normVars, postResponse, submitResult,
                   http, health, pkgVars>>

\* job-submit.py lines 112-119: upload_metadata_to_server(metadata)
JobSubmit ==
    /\ script = "job-submit.py"
    /\ pc = "submit"
    /\ \E tick \in {0, 1}, resp \in PostResponses :
         LET r == upload_metadata_to_server(metadata, NoUrl, env, uuidCount + 1,
                                            clock + tick, resp)
         IN  /\ submitResult' = r.out
             /\ metadata' = r.md
             /\ http' = http \o r.sent
             /\ env' = r.env
             /\ IF r.sent = <<>>
                THEN UNCHANGED <<uuidCount, clock, postResponse>>
                ELSE /\ uuidCount' = uuidCount + 1
                     /\ clock' = clock + tick
                     /\ postResponse' = resp
             /\ Exit(IF r.out.kind = "return" THEN 0 ELSE 1)
    /\ UNCHANGED <<script, world, secretVars, normVars, health, buildResult, pkgVars>>

NextJob == Prologue \/ HealthCheck \/ JobBuildMetadata \/ JobSubmit

SpecJob == InitJob /\ [][NextJob]_vars

-----------------------------------------------------------------------------
(* upload_metadata_to_server called by importing code, with or without an  *)
(* api_url argument                                                        *)

HttpY == <<"h", "t", "t", "p", ":", "/", "/", "y">>
ApiUrls == {NoUrl, HttpY, HttpY \o <<"/">>, HttpY \o SubmitSuffix}

\* environments of such a caller: those of job-submit.py without the
\* optional build keys
SubmitEnvs == {e \in JobEnvs : \A k \in OptionalJobKeys : e[k] = Absent}

InitSubmit ==
    /\ script = "upload_metadata_to_server"
    /\ pc = "boot"
    /\ env \in SubmitEnvs
    /\ envFileExists \in BOOLEAN
    /\ IF envFileExists /\ ~Truthy(env["JENKINS_HOME"])
       THEN envFile \in {Defines(JobKeys, "http://x/", "file-value"),
                         Defines(RequiredJobKeys, "http://x/", "file-value")}
       ELSE envFile = NoEnv
    /\ IF Truthy(env["JENKINS_TOKEN"])
       THEN /\ jenkinsUp \in BOOLEAN
            /\ jenkinsStore \in {NoEnv, Defines(JobKeys, "http://x/submit", "jenkins-value")}
       ELSE /\ jenkinsUp = FALSE
            /\ jenkinsStore = NoEnv
    /\ apiUrl \in ApiUrls
    /\ normalized = <<>>
    /\ IdleSecret
    /\ IdleJob
    /\ IdleMain
    /\ IdlePkg

\* the caller's record: a dict with one field of its own
CallerRecord == [f \in {"branch"} |-> "main"]

\* upload_metadata_to_server(record, api_url), or upload_metadata_to_server(record)
\* when apiUrl is NoUrl
CallSubmit ==
    /\ script = "upload_metadata_to_server"
    /\ pc = "boot"
    /\ \E tick \in {0, 1}, resp \in PostResponses :
         LET r == upload_metadata_to_server(CallerRecord, apiUrl, env, uuidCount + 1,
                                            clock + tick, resp)
         IN  /\ submitResult' = r.out
             /\ metadata' = r.md
             /\ http' = http \o r.sent
             /\ env' = r.env
             /\ IF r.sent = <<>>
                THEN UNCHANGED <<uuidCount, clock, postResponse>>
                ELSE /\ uuidCount' = uuidCount + 1
                     /\ clock' = clock + tick
                     /\ postResponse' = resp
    /\ pc' = "submitted"
    /\ UNCHANGED <<script, world, secretVars, normVars, buildResult, health, exitCode,
                   pkgVars>>

NextSubmit == CallSubmit

SpecSubmit == InitSubmit /\ [][NextSubmit]_vars

-----------------------------------------------------------------------------
(* package-uploader.py and uploader.py *)

\* subprocess.run outcomes: an exit status, or the call itself raising
ProcessOutcomes == [kind : {"exit"}, code : {0, 1}] \cup {[kind |-> "raise"]}

\* The return-code test taking any finished copy as a success.
copy_succeeded_any_exit(c) == c.kind = "exit"

\* if result.returncode == 0
copy_succeeded(c) == c.kind = "exit" /\ c.code = 0

RegisterStatuses == {200, 201, 204, 404}
RegisterResponses == [kind : {"response"}, status : RegisterStatuses] \cup {[kind |-> "raise"]}

\* The try block of register_file_to_newdahkobed: get_file_metadata, the
\* endpoint secret, the POST and the status test.
register_body(e, sizeOk, resp) ==
    LET r == get_secrets(<<"PACKAGE_MODE", "COMMIT_SHA">>, e)
    IN  IF r.kind # "return" \/ ~sizeOk
        THEN [kind |-> "raise", val |-> "raised", sent |-> <<>>, env |-> r.env]
        ELSE
        LET u == secret("SERVER_ENDPOINT", r.env)
        IN  IF u.kind # "return"
            THEN [kind |-> "raise", val |-> "raised", sent |-> <<>>, env |-> u.env]
            ELSE
            LET req == [method |-> "POST", url |-> Chars(u.val) \o SubmitSuffix,
                        body |-> [packagemode |-> r.vals[1], commit |-> r.vals[2]]]
            IN  IF resp.kind = "raise"
                THEN [kind |-> "raise", val |-> "raised", sent |-> <<req>>, env |-> u.env]
                ELSE [kind |-> "return",
                      val |-> IF resp.status \in {200, 201, 204} THEN "True" ELSE "False",
                      sent |-> <<req>>, env |-> u.env]

\* register_file_to_newdahkobed without its except clause.
register_uncaught(e, sizeOk, resp) == register_body(e, sizeOk, resp)

\* register_file_to_newdahkobed: the try block, and "except Exception: return False"
register_file_to_newdahkobed(e, sizeOk, resp) ==
    LET b == register_body(e, sizeOk, resp)
    IN  IF b.kind = "raise" THEN [b EXCEPT !.kind = "return", !.val = "False"] ELSE b

\* upload_file_with_azcopy after a copy that exited 0: the registration's
\* value is dropped and True returned; an exception would reach the outer
\* except clause, which returns False.
upload_result_after_register(r) == IF r.kind = "raise" THEN "False" ELSE "True"

\* The main block after upload_file_with_azcopy(...) returned: the value is
\* not looked at and the script runs off its end.
main_exit_status(uploaded) == 0

UploadScripts == {"package-uploader.py", "uploader.py"}

\* Environments the upload scripts are started in: all keys set, all but
\* one, or none.
PkgEnvs ==
    {[k \in AllKeys |->
        IF k = "JENKINS_HOME" THEN (IF home THEN "/var/jenkins" ELSE Absent)
        ELSE IF k \in {"JENKINS_URL", "JENKINS_USER"} THEN (IF home THEN "ci" ELSE Absent)
        ELSE IF k = "JENKINS_TOKEN" THEN (IF home /\ token THEN "ci-token" ELSE Absent)
        ELSE IF k \in set THEN (IF k = "SERVER_ENDPOINT" THEN "http://x" ELSE "env-value")
        ELSE Absent] :
      home \in BOOLEAN, token \in BOOLEAN,
      set \in {PkgKeys, {}} \cup {PkgKeys \ {k} : k \in PkgKeys}}

PkgDefines(set, url, v) ==
    [k \in AllKeys |-> IF k = "SERVER_ENDPOINT" /\ k \in set THEN url
                       ELSE IF k \in set THEN v ELSE Absent]

InitPkg ==
    /\ script \in UploadScripts
    /\ pc = "boot"
    /\ env \in PkgEnvs
    /\ envFileExists \in BOOLEAN
    /\ IF envFileExists /\ ~Truthy(env["JENKINS_HOME"])
       THEN envFile = PkgDefines(PkgKeys, "http://x/", "file-value")
       ELSE envFile = NoEnv
    /\ IF Truthy(env["JENKINS_TOKEN"])
       THEN /\ jenkinsUp \in BOOLEAN
            /\ jenkinsStore \in {NoEnv, PkgDefines(PkgKeys, "http://x/submit", "jenkins-value")}
       ELSE /\ jenkinsUp = FALSE
            /\ jenkinsStore = NoEnv
    /\ fileExists \in BOOLEAN
    /\ containerExists \in BOOLEAN
    /\ containerCheck = "none"
    /\ copy = NoOutcome
    /\ registerResult = "none"
    /\ uploadResult = "none"
    /\ IdleSecret
    /\ IdleNorm
    /\ IdleJob
    /\ IdleMain

\* return <value> from upload_file_with_azcopy
Return(value) ==
    /\ uploadResult' = value
    /\ pc' = "returned"

\* get_secret('TEST_FILE'), the argument of the call in the main block
GetTestFile ==
    /\ script \in UploadScripts
    /\ pc = "testfile"
    /\ LET r == secret("TEST_FILE", env)
       IN  /\ env' = r.env
           /\ IF r.kind = "return"
              THEN pc' = "upload" /\ UNCHANGED exitCode
              ELSE Exit(1)
    /\ UNCHANGED <<script, world, secretVars, normVars, jobVars, http, health, pkgVars>>

UploadSecretKeys ==
    IF script = "uploader.py"
    THEN <<"AZURE_STORAGE_ACCOUNT", "AZURE_STORAGE_KEY", "AZURE_CONTAINER_NAME",
           "AZURE_CLIENT_ID">>
    ELSE <<"AZURE_STORAGE_ACCOUNT", "AZURE_STORAGE_KEY", "AZURE_CONTAINER_NAME">>

\* upload_file_with_azcopy up to the destination URL: the file check, the
\* storage secrets, the SAS token and (package-uploader.py) the rename
UploadStart ==
    /\ script \in UploadScripts
    /\ pc = "upload"
    /\ IF ~fileExists
       THEN Return("False") /\ UNCHANGED <<env, exitCode>>
       ELSE LET r == get_secrets(UploadSecretKeys, env)
            IN  /\ env' = r.env
                /\ CASE r.kind = "exit" -> Exit(1) /\ UNCHANGED uploadResult
                     [] r.kind = "raise" -> Return("False") /\ UNCHANGED exitCode
                     [] OTHER ->
                          /\ UNCHANGED exitCode
                          /\ \E failure \in {"none", "sas", "rename"} :
                               IF script = "uploader.py"
                               THEN pc' = "login" /\ UNCHANGED uploadResult
                               ELSE IF failure = "none"
                               THEN pc' = "container" /\ UNCHANGED uploadResult
                               ELSE Return("False")
    /\ UNCHANGED <<script, world, secretVars, normVars, jobVars, http, health,
                   fileExists, containerCheck, containerExists, copy, registerResult>>

\* container_client.exists()
ContainerExists ==
    /\ script = "package-uploader.py"
    /\ pc = "container"
    /\ \E raises \in BOOLEAN :
         IF raises
         THEN Return("False") /\ containerCheck' = "query-raised"
         ELSE /\ pc' = IF containerExists THEN "copy" ELSE "create"
              /\ containerCheck' = IF containerExists THEN "exists" ELSE "absent"
              /\ UNCHANGED uploadResult
    /\ UNCHANGED <<script, env, world, secretVars, normVars, jobVars, mainVars,
                   fileExists, containerExists, copy, registerResult>>

\* container_client.create_container(): the storage service rejects the
\* creation of a container that exists
CreateContainer ==
    /\ script = "package-uploader.py"
    /\ pc = "create"
    /\ \E raises \in BOOLEAN :
         IF raises \/ containerExists
         THEN /\ Return("False")
              /\ containerCheck' = IF containerExists THEN "already-exists"
                                    ELSE "create-raised"
              /\ UNCHANGED containerExists
         ELSE /\ containerExists' = TRUE
              /\ containerCheck' = "created"
              /\ pc' = "copy"
              /\ UNCHANGED uploadResult
    /\ UNCHANGED <<script, env, world, secretVars, normVars, jobVars, mainVars,
                   fileExists, copy, registerResult>>

\* another client of the storage account creates the container
OtherCreator ==
    /\ script = "package-uploader.py"
    /\ pc \in {"container", "create"}
    /\ ~containerExists
    /\ containerExists' = TRUE
    /\ UNCHANGED <<script, pc, env, world, secretVars, normVars, jobVars, mainVars,
                   fileExists, containerCheck, copy, registerResult, uploadResult>>

\* uploader.py: azcopy login
Login ==
    /\ script = "uploader.py"
    /\ pc = "login"
    /\ \E c \in ProcessOutcomes :
         IF c.kind = "exit" /\ c.code = 0
         THEN pc' = "copy" /\ UNCHANGED uploadResult
         ELSE Return("False")
    /\ UNCHANGED <<script, env, world, secretVars, normVars, jobVars, mainVars,
                   fileExists, containerCheck, containerExists, copy, registerResult>>

\* azcopy copy and the test of its return code
Copy ==
    /\ script \in UploadScripts
    /\ pc = "copy"
    /\ \E c \in ProcessOutcomes :
         /\ copy' = c
         /\ IF copy_succeeded(c)
            THEN IF script = "uploader.py"
                 THEN Return("True")
                 ELSE pc' = "register" /\ UNCHANGED uploadResult
            ELSE Return("False")
    /\ UNCHANGED <<script, env, world, secretVars, normVars, jobVars, mainVars,
                   fileExists, containerCheck, containerExists, registerResult>>

\* package-uploader.py lines 165-166: register the file, return True
Register ==
    /\ script = "package-uploader.py"
    /\ pc = "register"
    /\ \E sizeOk \in BOOLEAN, resp \in RegisterResponses :
         LET r == register_file_to_newdahkobed(env, sizeOk, resp)
         IN  /\ registerResult' = r.val
             /\ http' = http \o r.sent
             /\ env' = r.env
             /\ Return(upload_result_after_register(r))
    /\ UNCHANGED <<script, world, secretVars, normVars, jobVars, health, exitCode,
                   fileExists, containerCheck, containerExists, copy>>

\* the main block after the call returned
MainEnd ==
    /\ script \in UploadScripts
    /\ pc = "returned"
    /\ Exit(main_exit_status(uploadResult))
    /\ UNCHANGED <<script, env, world, secretVars, normVars, jobVars, http, health,
                   pkgVars>>

NextPkg ==
    \/ Prologue \/ HealthCheck \/ GetTestFile \/ UploadStart \/ ContainerExists
    \/ CreateContainer \/ OtherCreator \/ Login \/ Copy \/ Register \/ MainEnd

SpecPkg == InitPkg /\ [][NextPkg]_vars

-----------------------------------------------------------------------------
(* Claims about secret resolution (SpecSecret) *)

Done == pc = "done"
InJenkins == Truthy(envAtCall["JENKINS_HOME"])
TripleSet == /\ Truthy(envAtCall["JENKINS_URL"])
             /\ Truthy(envAtCall["JENKINS_USER"])
             /\ Truthy(envAtCall["JENKINS_TOKEN"])
Consulted(tier) == \E i \in 1..Len(log) : log[i] = tier
\* the key is not set in the environment when get_secret is called, and a
\* present .env file defines it with a non-empty value
OnlyInEnvFile == /\ envAtCall[key] = Absent
                 /\ envFileExists
                 /\ Truthy(envFile[key])

\* C2 as stated: tiers in the order environment, .env, Jenkins; a key absent
\* from the environment but defined in a present .env file resolves to the
\* .env value, also when JENKINS_HOME is set, and Jenkins is contacted only
\* after the .env lookup.
C2_EnvFileBeforeJenkins ==
    (Done /\ script = "jenkins_helper" /\ OnlyInEnvFile) =>
        /\ result = [kind |-> "return", val |-> envFile[key]]
        /\ \A i \in 1..Len(log) : log[i] = "jenkins" =>
               \E j \in 1..(i - 1) : log[j] = "dotenv"

\* C2 amended: the environment is looked up first; after it, a call
\* consults Jenkins only when JENKINS_HOME is set and the .env file only when
\* JENKINS_HOME is not set, never both. A key absent from the environment
\* but defined in a present .env file resolves to the .env value when
\* JENKINS_HOME is not set; when it is set the .env file is not read and the
\* call returns the Jenkins credential or raises.
C2_TierOrder ==
    (Done /\ script = "jenkins_helper") =>
        /\ log[1] = "environ"
        /\ Consulted("jenkins") => InJenkins /\ ~Truthy(envAtCall[key])
        /\ Consulted("dotenv") => ~InJenkins /\ ~Truthy(envAtCall[key])
        /\ ~(Consulted("jenkins") /\ Consulted("dotenv"))
        /\ (OnlyInEnvFile /\ ~InJenkins) =>
               /\ result = [kind |-> "return", val |-> envFile[key]]
               /\ log = <<"environ", "dotenv">>
        /\ (OnlyInEnvFile /\ InJenkins) =>
               /\ env = envAtCall
               /\ \/ result = [kind |-> "return", val |-> jenkinsStore[key]]
                  \/ result.kind = "raise"

C2_Witness ==
    /\ Done /\ script = "jenkins_helper" /\ OnlyInEnvFile /\ InJenkins
    /\ TripleSet /\ jenkinsUp
    /\ result.kind = "raise"

\* C3: a key with a non-empty value in the environment resolves to exactly
\* that value, and neither the .env file nor Jenkins is consulted, whatever
\* the JENKINS_* values are.
C3_EnvShortCircuit ==
    (Done /\ Truthy(envAtCall[key])) =>
        /\ result = [kind |-> "return", val |-> envAtCall[key]]
        /\ log = <<"environ">>
        /\ env = envAtCall

C3_Witness ==
    /\ Done /\ Truthy(envAtCall[key])
    /\ InJenkins /\ TripleSet /\ jenkinsUp /\ Truthy(jenkinsStore[key])
    /\ result.kind = "return"

\* no tier holds a usable value for the key
NoTierSupplies ==
    /\ ~Truthy(envAtCall[key])
    /\ ~(envFileExists /\ Truthy(envFile[key]))
    /\ ~Truthy(jenkinsStore[key])

SecretNotFoundErrors == {MsgNotFoundAnySource, MsgNotInJenkins}

\* C4 as stated: a key no tier can supply makes get_secret fail with the
\* secret-not-found error, whatever JENKINS_HOME and .env are.
C4_AlwaysSecretNotFound ==
    (Done /\ NoTierSupplies) =>
        /\ result.kind = "raise"
        /\ result.val \in SecretNotFoundErrors

\* C4 amended: a key no tier can supply never yields a value. The helper's
\* get_secret raises: the secret-not-found error when JENKINS_HOME is not set
\* or Jenkins answered without the credential, the credentials-not-set error
\* when JENKINS_HOME is set and the connection triple is incomplete, and the
\* Jenkins access error when the service call fails. uploader.get_secret
\* ends the process with exit status 1 instead of raising.
C4_NeverReturns ==
    (Done /\ NoTierSupplies) =>
        /\ result.kind # "return"
        /\ script = "uploader" => result = [kind |-> "exit", val |-> ExitFailure]
        /\ script = "jenkins_helper" =>
               /\ result.kind = "raise"
               /\ ~InJenkins => result.val = MsgNotFoundAnySource
               /\ (InJenkins /\ ~TripleSet) => result.val = MsgCredsNotSet
               /\ (InJenkins /\ TripleSet /\ ~jenkinsUp) => result.val = MsgJenkinsFailed
               /\ (InJenkins /\ TripleSet /\ jenkinsUp) => result.val = MsgNotInJenkins

C4_Witness ==
    /\ Done /\ NoTierSupplies /\ script = "jenkins_helper"
    /\ InJenkins /\ TripleSet /\ jenkinsUp /\ envFileExists
    /\ result.val = MsgNotInJenkins

-----------------------------------------------------------------------------
(* Claims about job-submit.py (SpecJob) *)

Resolvable(k) == secret(k, env).kind = "return"
FieldOf(k) == BuildFields[CHOOSE i \in 1..6 : BuildKeys[i] = k]
Posts == {i \in 1..Len(http) : http[i].method = "POST"}
BuildRan == buildResult.kind # "none"
\* GET /healthcheck answered 200 with body "Alive"
HealthAlive == health = [kind |-> "response", status |-> 200, body |-> "Alive"]

\* C5: with JOB_NAME and BUILD_NUMBER resolvable, generate_build_metadata
\* returns a record holding exactly id, timestamp, the two required fields
\* and the optional fields whose keys resolve, none of them empty; an
\* unresolvable optional key drops its field instead of failing the call.
C5_OptionalFieldsDropped ==
    (BuildRan /\ \A k \in RequiredJobKeys : Resolvable(k)) =>
        /\ buildResult.kind = "return"
        /\ DOMAIN buildResult.val =
              {"id", "timestamp", "jobname", "buildnumber"}
                \cup {FieldOf(k) : k \in {o \in OptionalJobKeys : Resolvable(o)}}
        /\ \A f \in DOMAIN buildResult.val : buildResult.val[f] # ""

\* C6 as stated: one POST, and the parsed body is returned exactly when the
\* status is 200; any other status raises an error carrying status and body,
\* and a transport failure raises.
C6_ReturnsIffStatus200 ==
    (postResponse.kind # "none") =>
        /\ Cardinality(Posts) = 1
        /\ submitResult.kind \in {"return", "raise"}
        /\ submitResult.kind = "return" <=>
              (postResponse.kind = "response" /\ postResponse.status = 200)
        /\ submitResult.kind = "return" => submitResult.val = json(postResponse.body)
        /\ (postResponse.kind = "response" /\ postResponse.status # 200) =>
              /\ submitResult.val = MsgSubmitFailed
              /\ submitResult.status = postResponse.status
              /\ submitResult.body = postResponse.body

\* C6 amended: one POST; the parsed body is returned exactly when the status
\* is 200 and the body parses as JSON; a 200 answer whose body does not
\* parse raises the decoding error; any other status (201 and 204 too)
\* raises an error carrying status and body; a transport failure raises.
C6_ReturnsIff200AndJson ==
    (postResponse.kind # "none") =>
        /\ Cardinality(Posts) = 1
        /\ submitResult.kind \in {"return", "raise"}
        /\ submitResult.kind = "return" <=>
              /\ postResponse.kind = "response"
              /\ postResponse.status = 200
              /\ postResponse.body \in JsonBodies
        /\ submitResult.kind = "return" => submitResult.val = json(postResponse.body)
        /\ (postResponse.kind = "response" /\ postResponse.status = 200
               /\ postResponse.body \notin JsonBodies) =>
              submitResult.val = MsgJsonDecode
        /\ (postResponse.kind = "response" /\ postResponse.status # 200) =>
              /\ submitResult.val = MsgSubmitFailed
              /\ submitResult.status = postResponse.status
              /\ submitResult.body = postResponse.body
        /\ postResponse.kind = "raise" => submitResult.val = MsgTransport

C6_Witness ==
    /\ postResponse.kind = "response"
    /\ postResponse.status = 201
    /\ postResponse.body \in JsonBodies
    /\ submitResult.kind = "raise"
    /\ submitResult.status = 201

\* C7: the POST to /submit happens only after GET {endpoint}/healthcheck
\* answered 200 with body "Alive"; when the health check answers anything
\* else, or cannot be made, the process exits with status 1 and neither
\* builds a record nor POSTs.
C7_HealthGate ==
    /\ Posts # {} =>
         /\ HealthAlive
         /\ http[1].method = "GET"
         /\ endswith(http[1].url, HealthPath)
         /\ \A i \in Posts : i > 1 /\ endswith(http[i].url, SubmitSuffix)
    /\ (script = "job-submit.py" /\ pc \in {"build", "submit"}) => HealthAlive
    /\ (script = "job-submit.py" /\ pc \in {"build", "submit", "exited"}
           /\ ~HealthAlive) =>
         /\ pc = "exited"
         /\ exitCode = 1
         /\ Posts = {}
         /\ ~BuildRan
         /\ uuidCount = 0
         /\ metadata = <<>>

C7_Witness ==
    /\ script = "job-submit.py"
    /\ health = [kind |-> "response", status |-> 200, body |-> "Dead"]
    /\ exitCode = 1
    /\ Posts = {}

\* the other case of C7: a passed health check followed by the POST
C7_WitnessPosted ==
    /\ HealthAlive
    /\ Posts = {2}

-----------------------------------------------------------------------------
(* Claims about package-uploader.py and uploader.py (SpecPkg) *)

CopyExitedZero == copy.kind = "exit" /\ copy.code = 0
CopyExitedNonZero == copy.kind = "exit" /\ copy.code # 0
UploadReturned == pc \in {"returned", "exited"} /\ uploadResult # "none"

\* C1: the process exits with status 0 only on success and with status 1 on
\* any failure; whenever upload_file_with_azcopy reports failure, the main
\* block of package-uploader.py and of uploader.py ends with exit status 1.
C1_ExitStatusReflectsUpload ==
    (script \in UploadScripts /\ pc = "exited") =>
        /\ exitCode \in {0, 1}
        /\ exitCode = 0 => uploadResult = "True"
        /\ uploadResult = "False" => exitCode = 1

\* C9: in package-uploader.py a copy process that exits non-zero makes
\* upload_file_with_azcopy return False without any registration request;
\* the registration POST is attempted only after a copy that exited 0.
C9_NoRegistrationAfterFailedCopy ==
    script = "package-uploader.py" =>
        /\ CopyExitedNonZero =>
              /\ UploadReturned
              /\ uploadResult = "False"
              /\ registerResult = "none"
              /\ Posts = {}
        /\ (Posts # {} \/ registerResult # "none" \/ pc = "register") => CopyExitedZero

C9_Witness ==
    /\ script = "package-uploader.py"
    /\ CopyExitedNonZero
    /\ pc = "exited"
    /\ uploadResult = "False"

\* C10: once the copy has exited 0, upload_file_with_azcopy returns True
\* whatever the registration does (2xx, non-2xx, transport error, secret or
\* file metadata failure), and register_file_to_newdahkobed never raises:
\* it returns True or False.
C10_RegistrationNonFatal ==
    script = "package-uploader.py" =>
        /\ registerResult \in {"none", "True", "False"}
        /\ (CopyExitedZero /\ UploadReturned) =>
              /\ uploadResult = "True"
              /\ registerResult \in {"True", "False"}

C10_Witness ==
    /\ script = "package-uploader.py"
    /\ CopyExitedZero
    /\ pc = "exited"
    /\ registerResult = "False"
    /\ Posts = {}
    /\ uploadResult = "True"

\* the upload got as far as the copy step
ReachedCopy == pc \in {"copy", "register"} \/ copy.kind # "none"

\* C11: ensuring the container exists is idempotent, "already exists" being
\* a success: whether the container was found, was created, or was created
\* by someone else between the existence query and create_container (which
\* the storage service then rejects), the upload goes on to the copy step.
C11_AlreadyExistsIsSuccess ==
    (script = "package-uploader.py"
        /\ containerCheck \in {"exists", "created", "already-exists"}) =>
        ReachedCopy

-----------------------------------------------------------------------------
(* Claims about the submitted record (SpecJob) *)

\* C12: submission attaches id and timestamp only when the record lacks
\* them: for a record built by generate_build_metadata the id and timestamp
\* in the POSTed JSON body are the ones it was constructed with, and
\* submission modifies none of the record's existing fields.
C12_RecordIdentityKept ==
    (script = "job-submit.py" /\ buildResult.kind = "return" /\ Posts # {}) =>
        /\ \A i \in Posts :
              /\ http[i].body["id"] = buildResult.val["id"]
              /\ http[i].body["timestamp"] = buildResult.val["timestamp"]
        /\ \A f \in DOMAIN buildResult.val : metadata[f] = buildResult.val[f]

-----------------------------------------------------------------------------
(* Claims about the Jenkins branch of get_secret (SpecSecret) *)

\* JENKINS_HOME is set and the key is not in the environment
JenkinsLookupCase == Done /\ InJenkins /\ ~Truthy(envAtCall[key])

\* C13 as stated: in that case the remote lookup is attempted only with
\* JENKINS_URL, JENKINS_USER and JENKINS_TOKEN all set; with one missing the
\* call makes no remote request and fails at once with a configuration
\* error that differs from the secret-not-found error.
C13_ConfigurationError ==
    JenkinsLookupCase =>
        /\ Consulted("jenkins") => TripleSet
        /\ ~TripleSet =>
              /\ ~Consulted("jenkins")
              /\ result = [kind |-> "raise", val |-> MsgCredsNotSet]
              /\ MsgCredsNotSet \notin SecretNotFoundErrors

\* C13 amended: the remote lookup is attempted exactly when the three values
\* are all set; with one missing no remote request is made and the call
\* fails at once. jenkins_helper.get_secret then raises the "Jenkins
\* credentials are not set" error, whose message differs from the
\* secret-not-found ones; uploader.get_secret ends the process with exit
\* status 1, the same outcome it has for a secret that is not found.
C13_TripleGate ==
    JenkinsLookupCase =>
        /\ Consulted("jenkins") <=> TripleSet
        /\ ~TripleSet =>
              /\ log = <<"environ">>
              /\ env = envAtCall
              /\ script = "jenkins_helper" =>
                    /\ result = [kind |-> "raise", val |-> MsgCredsNotSet]
                    /\ MsgCredsNotSet \notin SecretNotFoundErrors
              /\ script = "uploader" => result = [kind |-> "exit", val |-> ExitFailure]

C13_Witness ==
    /\ JenkinsLookupCase
    /\ script = "jenkins_helper"
    /\ Truthy(envAtCall["JENKINS_URL"]) /\ Truthy(envAtCall["JENKINS_USER"])
    /\ ~Truthy(envAtCall["JENKINS_TOKEN"])
    /\ jenkinsUp /\ Truthy(jenkinsStore[key])
    /\ result.val = MsgCredsNotSet

-----------------------------------------------------------------------------
(* Claims about the endpoint of upload_metadata_to_server (SpecSubmit) *)

\* C14: when the caller supplies api_url the POST goes to the normalized
\* api_url, JOB_SERVER_URL being used only without one; and a call with
\* api_url supplied does not fail merely because JOB_SERVER_URL cannot be
\* resolved: with JOB_NAME and BUILD_NUMBER resolvable the POST is sent.
C14_CallerEndpointUsed ==
    (script = "upload_metadata_to_server" /\ pc = "submitted" /\ apiUrl # NoUrl) =>
        /\ \A i \in Posts : http[i].url = normalize(apiUrl)
        /\ (\A k \in RequiredJobKeys : Resolvable(k)) => Posts # {}

====
